---- MODULE Spec2Model ----
(***************************************************************************)
(* Model of the hierarchy code of src/app.py:                              *)
(*   build_hierarchy  (lines 63-107): flattens a parent/child coded        *)
(*                     taxonomy sheet into root-to-leaf path records;      *)
(*   hierarchy_select (lines 110-133): narrows the flattened table level   *)
(*                     by level with one selectbox per level.              *)
(*   the form         (lines 295-479): the questions section, the question *)
(*                     count of the session and the save handler.          *)
(* Spec runs build_hierarchy and one call of hierarchy_select; SpecDfs     *)
(* runs build_hierarchy call by call; SpecSelect calls hierarchy_select    *)
(* again and again; SpecForm runs the form.                                *)
(* A data frame is a sequence of rows; a missing cell (pandas NaN) is the  *)
(* value NaN; the argument category=None is NoCategory.                    *)
(***************************************************************************)
EXTENDS Integers, Sequences, FiniteSets, TLC

VARIABLES
    sheet,         \* which reference table df is: "nbeo", or "asco" (as "uhco")
    df,            \* the taxonomy sheet handed to build_hierarchy
    has_title,     \* whether the sheet has a "title" column at all
    max_levels,    \* argument of the last build_hierarchy call
    category,      \* argument of the last build_hierarchy call
    flat_df,       \* the table build_hierarchy returned
    pc,            \* "loaded" | "built" | "select" | "done"
    level,         \* hierarchy_select: index of the level column the loop is at
    filtered_df,   \* hierarchy_select: the candidate rows
    shown,         \* option lists the selectboxes presented so far, by level
    picked,        \* the selections made so far, by level
    result,        \* what hierarchy_select returned
    call_stack,    \* build_hierarchy run call by call: the open calls of dfs
    paths_acc,     \* ... the list paths so far
    root_i,        \* ... the index of the next root of the loop over roots
    prev_shown,    \* the option lists the previous hierarchy_select call presented
    prev_picked,   \* the selections made in the previous hierarchy_select call
    learning_objective,  \* form: text of the "Learning Objective" text area
    is_assessed,         \* form: value of the "Is Assessed?" selectbox
    question_count,      \* st.session_state.question_count (Absent until set)
    question_texts,      \* form: texts of the "Question i" inputs
    justification,       \* form: text of the justification text area
    nbeo_cond_result,    \* results of the four hierarchy_select calls of the run
    nbeo_disc_result,
    asco_result,
    uhco_result,
    pressed,             \* the button that was pressed for the last script run
    new_rows,            \* the rows the save handler built in the last run
    message,             \* what the save handler showed in the last run
    file_rows            \* number of rows of sheet tblLO_Mapping of FILE

\* the state of a build_hierarchy call that is run call by call
dfs_vars == <<call_stack, paths_acc, root_i>>

\* what is remembered of the hierarchy_select call of the previous script run
rerun_vars == <<prev_shown, prev_picked>>

\* the state of the form and of the save handler
form_vars == <<learning_objective, is_assessed, question_count, question_texts,
               justification, nbeo_cond_result, nbeo_disc_result, asco_result,
               uhco_result, pressed, new_rows, message, file_rows>>

\* the state of the hierarchy functions
hier_vars == <<sheet, df, has_title, max_levels, category, flat_df, pc, level,
               filtered_df, shown, picked, result, dfs_vars, rerun_vars>>

vars == <<hier_vars, form_vars>>

----------------------------------------------------------------------------
(* Bounds of the model *)

MaxRows == 3
MaxLevelsArg == 3
MaxQuestions == 2
MaxFileRows == 2

(* Values *)

NaN == "<NaN>"
NoCategory == "<None>"
CodePool == <<"A", "B", "C", "D", "E">>
Categories == {"Condition", "Discipline"}
\* the titles of the sheets, listed in Python's string order ("" < "S" < "T")
TitleOrder == <<"", "S", "T">>
SheetTitles == {"S", "T"}

RECURSIVE Concat(_)
\* Concat(<<s1, ..., sn>>) = s1 \o ... \o sn
Concat(ss) == IF ss = <<>> THEN <<>> ELSE Head(ss) \o Concat(Tail(ss))

----------------------------------------------------------------------------
(* build_hierarchy *)

\* FilterCategory with the filter left out
FilterCategory_off(d, cat) == d

\* lines 65-66: if category: df = df[df["category"] == category]
FilterCategory(d, cat) ==
    IF cat # NoCategory /\ cat # ""
    THEN SelectSeq(d, LAMBDA r : r.category = cat)
    ELSE d

\* line 68: df = df.dropna(subset=["code"])
DropNaCode(d) == SelectSeq(d, LAMBDA r : r.code # NaN)

\* the frame the rest of build_hierarchy works on
Kept(d, cat) == DropNaCode(FilterCategory(d, cat))

KeptCodes(d) == {d[i].code : i \in DOMAIN d}

\* line 69: drop_duplicates(subset="code").set_index("code").to_dict("index"):
\* every code maps to the first row that carries it
code_map(d) ==
    [c \in KeptCodes(d) |->
        d[CHOOSE i \in DOMAIN d :
            d[i].code = c /\ \A j \in DOMAIN d : d[j].code = c => i <= j]]

\* children with every child put in front of the list instead of at its end
children_front(d, code) ==
    LET sub == SelectSeq(d, LAMBDA r : r.parent_code # NaN /\ r.parent_code = code)
    IN  [i \in DOMAIN sub |-> sub[Len(sub) + 1 - i].code]

\* lines 71-75: children[parent] lists the codes of the rows naming that parent,
\* one entry per row, in the order the rows are scanned; children.get(code, [])
children(d, code) ==
    LET sub == SelectSeq(d, LAMBDA r : r.parent_code # NaN /\ r.parent_code = code)
    IN  [i \in DOMAIN sub |-> sub[i].code]

\* leaves without the is_leaf flag
leaves_childless(d) == {c \in KeptCodes(d) : children(d, c) = <<>>}

\* lines 77-81: flagged is_leaf in code_map, or no children
leaves(d) ==
    {c \in KeptCodes(d) : code_map(d)[c].is_leaf = 1 \/ children(d, c) = <<>>}

RECURSIVE dfs_first_child(_, _, _, _)
\* dfs that returns after the first child
dfs_first_child(d, ml, code, path) ==
    LET p == Append(path, code)
    IN  IF code \in leaves(d) \/ Len(p) >= ml
        THEN <<p>>
        ELSE LET ch == children(d, code)
             IN  IF ch = <<>> THEN <<>> ELSE dfs_first_child(d, ml, ch[1], p)

RECURSIVE dfs_cap_late(_, _, _, _)
\* dfs with the cap tested by > instead of >=
dfs_cap_late(d, ml, code, path) ==
    LET p == Append(path, code)
    IN  IF code \in leaves(d) \/ Len(p) > ml
        THEN <<p>>
        ELSE LET ch == children(d, code)
             IN  Concat([i \in DOMAIN ch |-> dfs_cap_late(d, ml, ch[i], p)])

RECURSIVE dfs(_, _, _, _)
\* lines 85-91: the paths dfs(code, path) appends to paths, in order
dfs(d, ml, code, path) ==
    LET p == Append(path, code)
    IN  IF code \in leaves(d) \/ Len(p) >= ml
        THEN <<p>>
        ELSE LET ch == children(d, code)
             IN  Concat([i \in DOMAIN ch |-> dfs(d, ml, ch[i], p)])

\* roots that also takes the rows whose parent is not a code of the frame
roots_orphans(d) ==
    LET sub == SelectSeq(d, LAMBDA r : r.parent_code \notin KeptCodes(d))
    IN  [i \in DOMAIN sub |-> sub[i].code]

\* line 93: roots = df[df["parent_code"].isna()]["code"]
roots(d) ==
    LET sub == SelectSeq(d, LAMBDA r : r.parent_code = NaN)
    IN  [i \in DOMAIN sub |-> sub[i].code]

\* lines 83, 94-95
paths(d, ml) ==
    LET rs == roots(d)
    IN  Concat([i \in DOMAIN rs |-> dfs(d, ml, rs[i], <<>>)])

\* lines 102, 104: code_map[code].get("title", ""): the cell of the first row
\* with that code (NaN when the cell is empty), "" when there is no title column
TitleOf(d, ht, code) == IF ht THEN code_map(d)[code].title ELSE ""

\* Record with the leaf taken from the head of the path
Record_head(d, ht, path) ==
    [Code       |-> path,
     Title      |-> [i \in DOMAIN path |-> TitleOf(d, ht, path[i])],
     Leaf_Code  |-> path[1],
     Leaf_Title |-> TitleOf(d, ht, path[1])]

\* lines 99-105: one record per path
Record(d, ht, path) ==
    [Code       |-> path,
     Title      |-> [i \in DOMAIN path |-> TitleOf(d, ht, path[i])],
     Leaf_Code  |-> path[Len(path)],
     Leaf_Title |-> TitleOf(d, ht, path[Len(path)])]

\* lines 64-107
build_hierarchy(d0, ht, ml, cat) ==
    LET d  == Kept(d0, cat)
        ps == paths(d, ml)
    IN  [i \in DOMAIN ps |-> Record(d, ht, ps[i])]

----------------------------------------------------------------------------
(* hierarchy_select *)

\* lines 111-115: the LevelK_Title columns of the table; the DataFrame has
\* columns Level1..LevelK for the longest record
NumLevels(t) ==
    IF t = <<>> THEN 0
    ELSE CHOOSE n \in {Len(t[i].Code) : i \in DOMAIN t} :
            \A i \in DOMAIN t : Len(t[i].Code) <= n

\* the cell of a record at column LevelK_Title: NaN past the record's path
Cell(rec, k) == IF k <= Len(rec.Title) THEN rec.Title[k] ELSE NaN

\* Series.dropna()
DropNa(s) == SelectSeq(s, LAMBDA v : v # NaN)

RECURSIVE Unique(_)
\* Series.unique(): distinct values in order of first appearance
Unique(s) ==
    IF s = <<>> THEN <<>>
    ELSE LET h == Head(s)
         IN  <<h>> \o Unique(SelectSeq(Tail(s), LAMBDA v : v # h))

\* position of a title in Python's string order
Rank(v) == CHOOSE i \in DOMAIN TitleOrder : TitleOrder[i] = v

RECURSIVE Insert(_, _)
Insert(v, s) ==
    IF s = <<>> THEN <<v>>
    ELSE IF Rank(v) < Rank(Head(s)) THEN <<v>> \o s
         ELSE <<Head(s)>> \o Insert(v, Tail(s))

RECURSIVE sorted(_)
\* sorted(list): ascending
sorted(s) == IF s = <<>> THEN <<>> ELSE Insert(Head(s), sorted(Tail(s)))

\* line 119: sorted(filtered_df[level].dropna().unique().tolist())
Options(fdf, k) ==
    sorted(Unique(DropNa([i \in DOMAIN fdf |-> Cell(fdf[i], k)])))

\* Narrow keeping the rows that differ from the selection
Narrow_inverted(fdf, k, selection) ==
    SelectSeq(fdf, LAMBDA rec : Cell(rec, k) = NaN \/ Cell(rec, k) # selection)

\* line 123: filtered_df[filtered_df[level] == selection]
Narrow(fdf, k, selection) ==
    SelectSeq(fdf, LAMBDA rec : Cell(rec, k) # NaN /\ Cell(rec, k) = selection)

\* str() of a cell inside an f-string
Fmt(v) == IF v = NaN THEN "nan" ELSE v

EmptyResult == [code |-> "", title |-> "", combined |-> <<>>]

\* the separator of line 130: a space, an en dash (U+2013), a space
EnDashSep == " -- "

\* SelectResult reading the last candidate row instead of the first
SelectResult_last(fdf) ==
    IF fdf # <<>>
    THEN LET row == fdf[Len(fdf)]
         IN  [code     |-> row.Leaf_Code,
              title    |-> row.Leaf_Title,
              combined |-> <<Fmt(row.Leaf_Code), EnDashSep, Fmt(row.Leaf_Title)>>]
    ELSE [code |-> "", title |-> "", combined |-> <<>>]

\* lines 125-133; combined is the list of the pieces of the formatted string
SelectResult(fdf) ==
    IF fdf # <<>>
    THEN LET row == fdf[1]
         IN  [code     |-> row.Leaf_Code,
              title    |-> row.Leaf_Title,
              combined |-> <<Fmt(row.Leaf_Code), EnDashSep, Fmt(row.Leaf_Title)>>]
    ELSE EmptyResult

----------------------------------------------------------------------------
(* Input sheets *)

CodesFor(n) == {CodePool[i] : i \in 1..n}
CodeIdx(c) == CHOOSE i \in DOMAIN CodePool : CodePool[i] = c
ParentsFor(n) == CodesFor(n) \cup {NaN}
TitleAt(i) == IF i % 2 = 1 THEN "S" ELSE "T"

MkRow(c, p, t, l, g) ==
    [code |-> c, parent_code |-> p, title |-> t, is_leaf |-> l, category |-> g]

\* code columns that name the codes in order of first use (a renaming of any
\* column of codes)
FirstUseOrder(n) ==
    {c \in [1..n -> CodesFor(n)] :
        \A i \in 1..n : \A k \in 1..(CodeIdx(c[i]) - 1) :
            \E j \in 1..(i - 1) : c[j] = CodePool[k]}

\* the parents named are codes of the column c or the first code it does not
\* use (one name for every code foreign to the sheet)
OneUnknown(c, p) ==
    LET used == {c[i] : i \in DOMAIN c}
    IN  \A i \in DOMAIN p :
            IF p[i] = NaN THEN TRUE ELSE CodeIdx(p[i]) <= Cardinality(used) + 1

\* df is a sheet of n rows of one category, with any parent/child shape,
\* duplicate codes and leaf flags
StructSheet(n) ==
    \E c \in FirstUseOrder(n), p \in [1..n -> ParentsFor(n)], l \in [1..n -> {0, 1}] :
        /\ OneUnknown(c, p)
        /\ df = [i \in 1..n |-> MkRow(c[i], p[i], TitleAt(i), l[i], "Condition")]

\* df is a sheet of n rows of distinct codes where rows lack a code or are of
\* another category
FilterSheet(n) ==
    \E k \in [1..n -> {"kept", "nocode", "other"}], p \in [1..n -> ParentsFor(n)] :
        df = [i \in 1..n |->
                MkRow(IF k[i] = "nocode" THEN NaN ELSE CodePool[i], p[i],
                      TitleAt(i), 0,
                      IF k[i] = "other" THEN "Discipline" ELSE "Condition")]

\* df is a sheet of n rows of distinct codes with any titles, missing ones
\* included
TitleSheet(n) ==
    \E p \in [1..n -> ParentsFor(n)], t \in [1..n -> SheetTitles \cup {NaN}] :
        df = [i \in 1..n |-> MkRow(CodePool[i], p[i], t[i], 0, "Condition")]

\* df is such a sheet without a title column
NoTitleSheet(n) ==
    \E p \in [1..n -> ParentsFor(n)] :
        df = [i \in 1..n |-> MkRow(CodePool[i], p[i], NaN, 0, "Condition")]

----------------------------------------------------------------------------
(* The form and the save handler *)

\* line 349: "question_count" is not in st.session_state; the count itself is
\* never below 1
Absent == 0

\* texts a text input may hold: empty, blank, plain, padded with spaces
Texts == {"", " ", "Q1", " Q2 "}

\* str.strip()
Strip(t) == IF t = " " THEN "" ELSE IF t = " Q2 " THEN "Q2" ELSE t

\* the options of the "Is Assessed?" selectbox
AssessedValues == {"Yes", "No", " YES "}

\* line 313: str(is_assessed).strip().lower()
StripLower(v) == IF v = "Yes" \/ v = " YES " THEN "yes" ELSE "no"

\* line 313: assessed_flag
assessed_flag(v) == StripLower(v) = "yes"

\* questions with the blank questions kept
questions_all(texts) == [i \in DOMAIN texts |-> Strip(texts[i])]

\* line 363: questions = [q.strip() for q in question_texts if q.strip()]
questions(texts) ==
    LET kept == SelectSeq(texts, LAMBDA q : Strip(q) # "")
    IN  [i \in DOMAIN kept |-> Strip(kept[i])]

\* the values of the form's other widgets, which the handler copies to a row
year == "<year>"
semester == "<semester>"
course_type == "<course_type>"
course_name == "<course_name>"
lecture_name == "<lecture_name>"
bloom_level == "<bloom_level>"
teaching_method == "<teaching_method>"
micro_activity == "<micro_activity>"
summative_assessment == "<summative_assessment>"
difficulty == "<difficulty>"

\* lines 306, 327: "" unless the LO is assessed, then the selectbox's value
acoe_standard(v) == IF assessed_flag(v) THEN "<acoe_standard>" ELSE ""

\* lines 388-399, 419-430: the columns both kinds of row carry
CommonColumns(lo, v) ==
    [Year              |-> year,
     Semester          |-> semester,
     Type              |-> course_type,
     CourseName        |-> course_name,
     Lecture_Name      |-> lecture_name,
     LearningObjective |-> lo,
     BloomLevel        |-> bloom_level,
     Activity          |-> teaching_method,
     MicroActivity     |-> micro_activity,
     AssessmentMethod  |-> summative_assessment,
     Difficulty        |-> difficulty,
     IsAssessed        |-> v]

\* lines 386-415: the row of one question of an assessed LO
AssessedRow(lo, v, rs, question) ==
    CommonColumns(lo, v) @@
    [NBEO_Condition_Code   |-> rs[1].code,
     NBEO_Condition_Title  |-> rs[1].title,
     NBEO_Condition        |-> rs[1].combined,
     NBEO_Discipline_Code  |-> rs[2].code,
     NBEO_Discipline_Title |-> rs[2].title,
     NBEO_Discipline       |-> rs[2].combined,
     ASCO_Standard_Code    |-> rs[3].code,
     ASCO_Standard_Title   |-> rs[3].title,
     ASCO_Standard         |-> rs[3].combined,
     UHCO_Standard_Code    |-> rs[4].code,
     UHCO_Standard_Title   |-> rs[4].title,
     UHCO_Standard         |-> rs[4].combined,
     ACOE_Standard         |-> acoe_standard(v),
     Questions             |-> question]

\* lines 417-434: the row of an LO that is not assessed
NotAssessedRow(lo, v, just) ==
    CommonColumns(lo, v) @@
    [ACOE_Standard |-> "",
     Questions     |-> just]

\* lines 382-434: new_rows
NewRows(lo, v, rs, texts, just) ==
    IF assessed_flag(v)
    THEN LET qs == questions(texts)
         IN  [i \in DOMAIN qs |-> AssessedRow(lo, v, rs, qs[i])]
    ELSE <<NotAssessedRow(lo, v, just)>>

\* lines 376-379: the error the handler shows instead of saving, "" when none
Refusal(lo, v, texts) ==
    IF lo = "" THEN "Learning Objective is required."
    ELSE IF assessed_flag(v) /\ questions(texts) = <<>>
         THEN "At least one question is required when LO is assessed."
         ELSE ""

\* what the handler shows: a text, and the number of rows it names
Message(text, n) == [text |-> text, rows |-> n]

NoMessage == Message("", 0)

\* lines 305-311, 349-350: the form after a run of the script in which the
\* "Is Assessed?" selectbox holds v and no button was pressed: question_count
\* is created with 1 the first time the questions section is rendered
FirstRun(v) ==
    /\ learning_objective = ""
    /\ is_assessed = v
    /\ question_count = (IF assessed_flag(v) THEN 1 ELSE Absent)
    /\ question_texts = (IF assessed_flag(v) THEN <<"">> ELSE <<>>)
    /\ justification = ""
    /\ nbeo_cond_result = EmptyResult
    /\ nbeo_disc_result = EmptyResult
    /\ asco_result = EmptyResult
    /\ uhco_result = EmptyResult
    /\ pressed = "none"
    /\ new_rows = <<>>
    /\ message = NoMessage
    /\ file_rows = 0

----------------------------------------------------------------------------
(* The state machine *)

\* the script has loaded the reference tables and called nothing yet
Loaded ==
    /\ max_levels = 5
    /\ category = NoCategory
    /\ flat_df = <<>>
    /\ pc = "loaded"
    /\ level = 1
    /\ filtered_df = <<>>
    /\ shown = <<>>
    /\ picked = <<>>
    /\ result = EmptyResult
    /\ call_stack = <<>>
    /\ paths_acc = <<>>
    /\ root_i = 1
    /\ prev_shown = <<>>
    /\ prev_picked = <<>>

Init ==
    /\ FirstRun("Yes")
    /\ \E n \in 0..MaxRows :
        \/ sheet = "nbeo" /\ has_title = TRUE /\ FilterSheet(n)
        \/ sheet = "asco" /\ has_title = TRUE /\ (StructSheet(n) \/ TitleSheet(n))
        \/ sheet = "asco" /\ has_title = FALSE /\ NoTitleSheet(n)
    /\ Loaded

\* lines 143-146: the category arguments each sheet is built with
CategoryArgs(sh) == IF sh = "nbeo" THEN Categories ELSE {NoCategory}

\* lines 143-146: a call build_hierarchy(df, max_levels, category)
BuildHierarchy ==
    /\ pc = "loaded"
    /\ \E ml \in 0..MaxLevelsArg, cat \in CategoryArgs(sheet) :
        /\ max_levels' = ml
        /\ category' = cat
        /\ flat_df' = build_hierarchy(df, has_title, ml, cat)
    /\ pc' = "built"
    /\ UNCHANGED <<sheet, df, has_title, level, filtered_df, shown, picked, result,
                   dfs_vars, rerun_vars,
                   form_vars>>

\* lines 110-116: hierarchy_select is entered
SelectBegin ==
    /\ pc = "built"
    /\ filtered_df' = flat_df
    /\ level' = 1
    /\ shown' = <<>>
    /\ picked' = <<>>
    /\ pc' = "select"
    /\ UNCHANGED <<sheet, df, has_title, max_levels, category, flat_df, result,
                   dfs_vars, rerun_vars,
                   form_vars>>

\* lines 118-123: one turn of the level loop with a non-empty option list
SelectLevel ==
    /\ pc = "select"
    /\ level <= NumLevels(flat_df)
    /\ LET options == Options(filtered_df, level)
       IN  /\ options # <<>>
           /\ \E s \in DOMAIN options :
                /\ shown' = Append(shown, options)
                /\ picked' = Append(picked, options[s])
                /\ filtered_df' = Narrow(filtered_df, level, options[s])
    /\ level' = level + 1
    /\ UNCHANGED <<sheet, df, has_title, max_levels, category, flat_df, pc, result,
                   dfs_vars, rerun_vars,
                   form_vars>>

\* lines 118-121, 125-133: the loop ends (levels exhausted, or break on an
\* empty option list) and the result is returned
SelectReturn ==
    /\ pc = "select"
    /\ \/ level > NumLevels(flat_df)
       \/ Options(filtered_df, level) = <<>>
    /\ result' = SelectResult(filtered_df)
    /\ pc' = "done"
    /\ UNCHANGED <<sheet, df, has_title, max_levels, category, flat_df, level,
                   filtered_df, shown, picked, dfs_vars, rerun_vars,
                   form_vars>>

Next == BuildHierarchy \/ SelectBegin \/ SelectLevel \/ SelectReturn

Spec == Init /\ [][Next]_vars

----------------------------------------------------------------------------
(* build_hierarchy run call by call: every call of dfs is a frame of          *)
(* call_stack, so that the depth of the recursion and the return of the       *)
(* function are states of the model                                           *)

\* the frame build_hierarchy works on in the call under way
Frame == Kept(df, category)

\* the test of line 87 without the cap
PathEnds_nocap(d, ml, code, path) == code \in leaves(d)

\* line 87: code in leaves or len(path) >= max_levels, path being the path
\* extended by code
PathEnds(d, ml, code, path) == code \in leaves(d) \/ Len(path) >= ml

\* lines 85-86: a call dfs(code, path): its path is path + [code]; i is 0 until
\* the test of line 87 is made, then the index of the next child of the loop
Call(code, path) == [code |-> code, path |-> Append(path, code), i |-> 0]

Top == call_stack[Len(call_stack)]

Pop == SubSeq(call_stack, 1, Len(call_stack) - 1)

\* the child the loop of line 90 of the innermost call is at
NextChild == IF Top.i = 0 THEN 1 ELSE Top.i

\* the innermost call is in (or about to enter) its loop over the children
InLoop == Top.i >= 1 \/ ~PathEnds(Frame, max_levels, Top.code, Top.path)

\* df is a sheet of n unflagged rows of one category with any parent/child
\* shape, the codes of the rows drawn from two codes: a code may come twice,
\* as a root and as a child of its own descendant
LoopSheet(n) ==
    \E c \in [1..n -> {CodePool[1], CodePool[2]}],
       p \in [1..n -> {CodePool[1], CodePool[2], NaN}] :
        df = [i \in 1..n |-> MkRow(c[i], p[i], TitleAt(i), 0, "Condition")]

InitDfs ==
    /\ \E n \in 0..MaxRows :
        sheet = "asco" /\ has_title = TRUE /\ LoopSheet(n)
    /\ Loaded
    /\ FirstRun("Yes")

\* lines 63-83, 93: build_hierarchy is called; the maps, paths = [] and roots
BuildEnter ==
    /\ pc = "loaded"
    /\ \E ml \in 0..MaxLevelsArg, cat \in CategoryArgs(sheet) :
        /\ max_levels' = ml
        /\ category' = cat
    /\ call_stack' = <<>>
    /\ paths_acc' = <<>>
    /\ root_i' = 1
    /\ pc' = "dfs"
    /\ UNCHANGED <<sheet, df, has_title, flat_df, level, filtered_df, shown,
                   picked, result, rerun_vars,
                   form_vars>>

\* lines 94-95: for root in roots: dfs(root, [])
DfsRoot ==
    /\ pc = "dfs"
    /\ call_stack = <<>>
    /\ root_i <= Len(roots(Frame))
    /\ call_stack' = <<Call(roots(Frame)[root_i], <<>>)>>
    /\ root_i' = root_i + 1
    /\ UNCHANGED <<sheet, df, has_title, max_levels, category, flat_df, pc,
                   level, filtered_df, shown, picked, result, paths_acc, rerun_vars,
                   form_vars>>

\* lines 86-88: the call ends its path: paths.append(path), and returns
DfsEmit ==
    /\ pc = "dfs"
    /\ call_stack # <<>>
    /\ Top.i = 0
    /\ PathEnds(Frame, max_levels, Top.code, Top.path)
    /\ paths_acc' = Append(paths_acc, Top.path)
    /\ call_stack' = Pop
    /\ UNCHANGED <<sheet, df, has_title, max_levels, category, flat_df, pc,
                   level, filtered_df, shown, picked, result, root_i, rerun_vars,
                   form_vars>>

\* lines 89-91: the call recurses into its next child: dfs(child, path)
DfsChild ==
    /\ pc = "dfs"
    /\ call_stack # <<>>
    /\ InLoop
    /\ NextChild <= Len(children(Frame, Top.code))
    /\ call_stack' =
            Append([call_stack EXCEPT ![Len(call_stack)].i = NextChild + 1],
                   Call(children(Frame, Top.code)[NextChild], Top.path))
    /\ UNCHANGED <<sheet, df, has_title, max_levels, category, flat_df, pc,
                   level, filtered_df, shown, picked, result, paths_acc, root_i, rerun_vars,
                   form_vars>>

\* lines 90-91: the loop over the children is over and the call returns
DfsReturn ==
    /\ pc = "dfs"
    /\ call_stack # <<>>
    /\ InLoop
    /\ NextChild > Len(children(Frame, Top.code))
    /\ call_stack' = Pop
    /\ UNCHANGED <<sheet, df, has_title, max_levels, category, flat_df, pc,
                   level, filtered_df, shown, picked, result, paths_acc, root_i, rerun_vars,
                   form_vars>>

\* lines 97-107: the loop over roots is over; the records are built of paths
\* and returned
BuildReturn ==
    /\ pc = "dfs"
    /\ call_stack = <<>>
    /\ root_i > Len(roots(Frame))
    /\ flat_df' = [i \in DOMAIN paths_acc |-> Record(Frame, has_title, paths_acc[i])]
    /\ pc' = "built"
    /\ UNCHANGED <<sheet, df, has_title, max_levels, category, level,
                   filtered_df, shown, picked, result, dfs_vars, rerun_vars,
                   form_vars>>

NextDfs ==
    BuildEnter \/ DfsRoot \/ DfsEmit \/ DfsChild \/ DfsReturn \/ BuildReturn

\* the interpreter always runs the next statement of a call under way
SpecDfs == InitDfs /\ [][NextDfs]_vars /\ WF_vars(NextDfs)

----------------------------------------------------------------------------
(* hierarchy_select called again: every run of the script calls it anew on   *)
(* the table build_hierarchy returned (cached), and the user may change any  *)
(* selection between two runs                                                *)

\* Candidates that goes on with the candidate rows of the previous call
Candidates_stale(t, old) == old

\* line 116: filtered_df = flat_df.copy()
Candidates(t, old) == t

\* lines 110-116 on a later run of the script: the call starts anew; what the
\* previous call presented and was answered is kept for comparison
Reinvoke ==
    /\ pc = "done"
    /\ prev_shown' = shown
    /\ prev_picked' = picked
    /\ filtered_df' = Candidates(flat_df, filtered_df)
    /\ level' = 1
    /\ shown' = <<>>
    /\ picked' = <<>>
    /\ pc' = "select"
    /\ UNCHANGED <<sheet, df, has_title, max_levels, category, flat_df, result,
                   dfs_vars, form_vars>>

NextSelect ==
    BuildHierarchy \/ SelectBegin \/ SelectLevel \/ SelectReturn \/ Reinvoke

SpecSelect == Init /\ [][NextSelect]_vars

----------------------------------------------------------------------------
(* The form: every change of a widget and every press of a button runs the   *)
(* script once more; an action is one such run                               *)

\* the results of the four hierarchy_select calls of the run
StandardsResults == <<nbeo_cond_result, nbeo_disc_result, asco_result, uhco_result>>

\* what hierarchy_select can return in the form: the result for an empty
\* hierarchy, or the result for the hierarchy of df
ResultValues ==
    {SelectResult(<<>>),
     SelectResult(build_hierarchy(df, has_title, max_levels, NoCategory))}

\* lines 307-310, 322-325: the four results of a run in which the selectbox
\* holds v: all-empty unless the LO is assessed
SetResults(v) ==
    IF assessed_flag(v)
    THEN /\ nbeo_cond_result' \in ResultValues
         /\ nbeo_disc_result' \in ResultValues
         /\ asco_result' \in ResultValues
         /\ uhco_result' \in ResultValues
    ELSE /\ nbeo_cond_result' = EmptyResult
         /\ nbeo_disc_result' = EmptyResult
         /\ asco_result' = EmptyResult
         /\ uhco_result' = EmptyResult

\* lines 352, 375: no button is pressed in the run: "Add another question" and
\* "Save this Learning Objective" return False, the handler does not run
NoButton ==
    /\ pressed' = "none"
    /\ new_rows' = <<>>
    /\ message' = NoMessage

InitForm ==
    /\ sheet = "asco"
    /\ has_title = TRUE
    /\ df = <<MkRow(CodePool[1], NaN, "S", 0, "Condition")>>
    /\ Loaded
    /\ \E v \in AssessedValues : FirstRun(v)

\* line 201: the user edits the "Learning Objective" text area
EditLearningObjective ==
    /\ \E t \in {"", "LO"} : learning_objective' = t
    /\ NoButton
    /\ UNCHANGED <<hier_vars, is_assessed, question_count, question_texts,
                   justification, nbeo_cond_result, nbeo_disc_result,
                   asco_result, uhco_result, file_rows>>

\* lines 295-315, 349-350: the user sets the "Is Assessed?" selectbox; the
\* first run that renders the questions section creates question_count
SetAssessed ==
    /\ \E v \in AssessedValues :
        /\ is_assessed' = v
        /\ SetResults(v)
        /\ IF assessed_flag(v) /\ question_count = Absent
           THEN question_count' = 1 /\ question_texts' = <<"">>
           ELSE UNCHANGED <<question_count, question_texts>>
    /\ NoButton
    /\ UNCHANGED <<hier_vars, learning_objective, justification, file_rows>>

\* lines 355-361: the user edits the text of one question
EditQuestion ==
    /\ assessed_flag(is_assessed)
    /\ \E i \in DOMAIN question_texts, t \in Texts :
        question_texts' = [question_texts EXCEPT ![i] = t]
    /\ NoButton
    /\ UNCHANGED <<hier_vars, learning_objective, is_assessed, question_count,
                   justification, nbeo_cond_result, nbeo_disc_result,
                   asco_result, uhco_result, file_rows>>

\* lines 367-370: the user edits the justification
EditJustification ==
    /\ ~assessed_flag(is_assessed)
    /\ \E t \in {"", "J"} : justification' = t
    /\ NoButton
    /\ UNCHANGED <<hier_vars, learning_objective, is_assessed, question_count,
                   question_texts, nbeo_cond_result, nbeo_disc_result,
                   asco_result, uhco_result, file_rows>>

\* lines 322-325: the user changes a selection of the standards selectboxes
PickStandards ==
    /\ assessed_flag(is_assessed)
    /\ SetResults(is_assessed)
    /\ NoButton
    /\ UNCHANGED <<hier_vars, learning_objective, is_assessed, question_count,
                   question_texts, justification, file_rows>>

\* lines 352-361: "Add another question" is pressed: one more text input
AddQuestion ==
    /\ assessed_flag(is_assessed)
    /\ question_count < MaxQuestions
    /\ question_count' = question_count + 1
    /\ question_texts' = Append(question_texts, "")
    /\ pressed' = "add"
    /\ new_rows' = <<>>
    /\ message' = NoMessage
    /\ UNCHANGED <<hier_vars, learning_objective, is_assessed, justification,
                   nbeo_cond_result, nbeo_disc_result, asco_result, uhco_result,
                   file_rows>>

\* lines 375-476: "Save this Learning Objective" is pressed. The handler
\* refuses with an error, or builds new_rows and writes them: appended to the
\* rows of the sheet, or alone when the sheet could not be read, or not at all
\* when the writer raised
Save ==
    /\ pressed' = "save"
    /\ LET refusal == Refusal(learning_objective, is_assessed, question_texts)
           rows == NewRows(learning_objective, is_assessed, StandardsResults,
                           question_texts, justification)
       IN  IF refusal # ""
           THEN /\ message' = Message(refusal, 0)
                /\ new_rows' = <<>>
                /\ file_rows' = file_rows
           ELSE /\ new_rows' = rows
                /\ \/ /\ file_rows + Len(rows) <= MaxFileRows
                      /\ file_rows' = file_rows + Len(rows)
                      /\ message' = Message("Saved", Len(rows))
                   \/ /\ file_rows' = Len(rows)
                      /\ message' = Message("Saved", Len(rows))
                   \/ /\ file_rows' = file_rows
                      /\ message' = Message("Error while saving", Len(rows))
    /\ UNCHANGED <<hier_vars, learning_objective, is_assessed, question_count,
                   question_texts, justification, nbeo_cond_result,
                   nbeo_disc_result, asco_result, uhco_result>>

NextForm ==
    \/ EditLearningObjective
    \/ SetAssessed
    \/ EditQuestion
    \/ EditJustification
    \/ PickStandards
    \/ AddQuestion
    \/ Save

SpecForm == InitForm /\ [][NextForm]_vars

----------------------------------------------------------------------------
(* The sheet as the claims read it: stated on the rows, not on the maps     *)
(* build_hierarchy derives from them                                        *)

RECURSIVE KeptOf(_)
\* the rows of d that have a code and, when a category was asked, are of that
\* category, in sheet order
KeptOf(d) ==
    IF d = <<>> THEN <<>>
    ELSE LET r == Head(d)
         IN  IF r.code # NaN /\ (category = NoCategory \/ r.category = category)
             THEN <<r>> \o KeptOf(Tail(d))
             ELSE KeptOf(Tail(d))

\* the rows build_hierarchy is to work on for the arguments of the last call
K == KeptOf(df)

\* the codes they carry
Codes == LET k == K IN {k[i].code : i \in DOMAIN k}

\* the title cell of the first kept row carrying code c ("" without a title
\* column)
FirstTitle(c) ==
    IF has_title
    THEN LET k == K
         IN  k[CHOOSE i \in DOMAIN k :
                k[i].code = c /\ \A j \in 1..(i - 1) : k[j].code # c].title
    ELSE ""

Built == pc = "built"

\* the first kept row carrying code c has is_leaf = 1
Flagged(c) ==
    LET k == K
    IN  \E i \in DOMAIN k :
            k[i].code = c /\ k[i].is_leaf = 1 /\ \A j \in 1..(i - 1) : k[j].code # c

HasChild(c) == LET k == K IN \E i \in DOMAIN k : k[i].parent_code = c

IsLeaf(c) == Flagged(c) \/ ~HasChild(c)

IsRoot(c) == LET k == K IN \E i \in DOMAIN k : k[i].code = c /\ k[i].parent_code = NaN

\* some kept row with code b names a as its parent
Link(a, b) == LET k == K IN \E i \in DOMAIN k : k[i].code = b /\ k[i].parent_code = a

DistinctCodes == LET k == K IN \A i, j \in DOMAIN k : k[i].code = k[j].code => i = j

Last(s) == s[Len(s)]

RECURSIVE ChainsOfLen(_)
\* the chains of exactly m codes from a root along parent->child links
ChainsOfLen(m) ==
    IF m <= 1 THEN {<<c>> : c \in {c \in Codes : IsRoot(c)}}
    ELSE UNION {{Append(s, b) : b \in {b \in Codes : Link(Last(s), b)}} :
                s \in ChainsOfLen(m - 1)}

\* the root-to-code chains of at most n codes
Chains(n) == UNION {ChainsOfLen(m) : m \in 1..n}

\* number of output records whose Leaf_Code is c
LeafCount(c) == Cardinality({i \in DOMAIN flat_df : flat_df[i].Leaf_Code = c})

\* the codes that occur at some level of some output record
Appearing == UNION {{r.Code[i] : i \in DOMAIN r.Code} \cup {r.Leaf_Code} :
                    r \in {flat_df[i] : i \in DOMAIN flat_df}}

----------------------------------------------------------------------------
\* C1 (as stated): every leaf code reachable from a root along parent->child
\* links within max_levels levels is the Leaf_Code of exactly one output record,
\* also with duplicate code rows and with an is_leaf-flagged ancestor.
C1_Original ==
    Built =>
        \A s \in Chains(max_levels) : IsLeaf(Last(s)) => LeafCount(Last(s)) = 1

\* a chain none of whose codes before the last is flagged is_leaf
Unflagged(s) == \A i \in 1..(Len(s) - 1) : ~Flagged(s[i])

\* C1 (amended): every leaf code reachable from a root within max_levels levels
\* along a chain whose earlier codes are not flagged is_leaf is the Leaf_Code of
\* at least one output record, and of exactly one when the kept rows carry
\* pairwise distinct codes.
C1_Coverage ==
    Built =>
        \A s \in Chains(max_levels) :
            (IsLeaf(Last(s)) /\ Unflagged(s)) =>
                /\ LeafCount(Last(s)) >= 1
                /\ DistinctCodes => LeafCount(Last(s)) = 1

\* a leaf two levels below its root, the deepest level max_levels allows, is
\* the Leaf_Code of one record
C1_Witness ==
    /\ pc = "built"
    /\ DistinctCodes
    /\ max_levels = 3
    /\ \E s \in Chains(max_levels) :
        Len(s) = 3 /\ IsLeaf(Last(s)) /\ Unflagged(s) /\ LeafCount(Last(s)) = 1

----------------------------------------------------------------------------
\* C2 (as stated): for any max_levels, every output record has at least 1 and
\* at most max_levels populated level pairs.
C2_Original ==
    Built =>
        \A i \in DOMAIN flat_df :
            Len(flat_df[i].Code) >= 1 /\ Len(flat_df[i].Code) <= max_levels

\* C2 (amended): every output record has at least 1 level pair and, when
\* max_levels >= 1, at most max_levels; when max_levels <= 0 it has exactly 1.
C2_DepthCap ==
    Built =>
        \A i \in DOMAIN flat_df :
            /\ Len(flat_df[i].Code) >= 1
            /\ Len(flat_df[i].Title) = Len(flat_df[i].Code)
            /\ Len(flat_df[i].Code) <= (IF max_levels >= 1 THEN max_levels ELSE 1)

\* a path is cut at the cap although its last code has children
C2_Witness ==
    /\ pc = "built"
    /\ max_levels = 2
    /\ \E i \in DOMAIN flat_df :
        Len(flat_df[i].Code) = 2 /\ HasChild(flat_df[i].Leaf_Code)
                                 /\ ~Flagged(flat_df[i].Leaf_Code)

----------------------------------------------------------------------------
\* C4: in every output record Leaf_Code is the code at the record's last
\* populated level and Leaf_Title is the title at that same level.
C4_LeafCorrect ==
    Built =>
        \A i \in DOMAIN flat_df :
            LET r == flat_df[i]
                n == Len(r.Code)
            IN  r.Leaf_Code = r.Code[n] /\ r.Leaf_Title = Cell(r, n)

\* a record of several levels whose levels carry different titles
C4_Witness ==
    /\ pc = "built"
    /\ \E i \in DOMAIN flat_df :
        LET r == flat_df[i]
        IN  /\ Len(r.Code) = 3
            /\ r.Title[1] # r.Title[3]
            /\ r.Title[2] # r.Title[3]
            /\ r.Code[1] # r.Leaf_Code

----------------------------------------------------------------------------
\* the rows left by the category filter
RowsOfCategory ==
    {i \in DOMAIN df : category = NoCategory \/ df[i].category = category}

\* no kept row has an absent parent_code
NoRoot == \A i \in DOMAIN K : K[i].parent_code # NaN

\* C6: when the category filter leaves zero rows, or the kept rows contain no
\* root, build_hierarchy returns an empty table; and hierarchy_select on an
\* empty table presents no level choice and returns the all-empty result.
C6_EmptyHierarchy ==
    /\ (Built /\ (RowsOfCategory = {} \/ NoRoot))
            => flat_df = <<>>
    /\ (pc \in {"select", "done"} /\ flat_df = <<>>)
            => shown = <<>> /\ picked = <<>> /\ filtered_df = <<>>
    /\ (pc = "done" /\ flat_df = <<>>)
            => result = [code |-> "", title |-> "", combined |-> <<>>]

\* a sheet with rows, none of the asked category, selected from
C6_Witness ==
    /\ pc = "done"
    /\ df # <<>>
    /\ category = "Condition"
    /\ RowsOfCategory = {}
    /\ \E i \in DOMAIN df : df[i].parent_code = NaN
    /\ result.code = ""

\* rows of another kind of empty hierarchy: rows are kept but none is a root
C6_WitnessNoRoot ==
    /\ pc = "done"
    /\ K # <<>>
    /\ NoRoot
    /\ result.code = ""

----------------------------------------------------------------------------
\* a row whose parent_code names no kept code
OrphanRow(i) == K[i].parent_code # NaN /\ K[i].parent_code \notin Codes

RECURSIVE Descend(_, _)
\* the codes reached from the set S along at most n parent->child links
Descend(S, n) ==
    IF n = 0 THEN S
    ELSE LET k == K
         IN  Descend(S \cup {k[i].code : i \in {i \in DOMAIN k : k[i].parent_code \in S}},
                     n - 1)

\* C7 (as stated): the code of a kept row whose parent_code names no kept code,
\* and every descendant of it, appears at no level and as no Leaf_Code.
C7_Original ==
    Built =>
        \A i \in DOMAIN K :
            OrphanRow(i) => Descend({K[i].code}, Len(K)) \cap Appearing = {}

\* the codes every kept row of which names a parent that is no kept code or is
\* a code of T
CutBelow(T) ==
    LET k     == K
        codes == Codes
    IN  {c \in codes :
            \A i \in DOMAIN k :
                k[i].code = c =>
                    /\ k[i].parent_code # NaN
                    /\ k[i].parent_code \notin codes \/ k[i].parent_code \in T}

RECURSIVE CutOff(_)
CutOff(n) == IF n = 0 THEN {} ELSE CutBelow(CutOff(n - 1))

\* C7 (amended): a code every kept row of which names a parent that is not among
\* the kept rows, or names a parent that is itself such a code, appears at no
\* level and as no Leaf_Code; with pairwise distinct codes these are exactly the
\* orphan rows and their descendants.
C7_Orphans ==
    Built =>
        LET k   == K
            cut == CutOff(Len(k))
        IN  /\ cut \cap Appearing = {}
            /\ DistinctCodes =>
                \A i \in DOMAIN k :
                    OrphanRow(i) => Descend({k[i].code}, Len(k)) \subseteq cut

\* the filter removed the parent of a kept row, which has a child of its own
C7_Witness ==
    /\ pc = "built"
    /\ category = "Condition"
    /\ \E i \in DOMAIN K :
        /\ OrphanRow(i)
        /\ \E j \in DOMAIN df :
            df[j].code = K[i].parent_code /\ df[j].category # category
        /\ Cardinality(Descend({K[i].code}, Len(K))) >= 2
        /\ Descend({K[i].code}, Len(K)) \cap Appearing = {}

\* an orphan is left out of a table that is not empty
C7_WitnessKept ==
    /\ pc = "built"
    /\ flat_df # <<>>
    /\ DistinctCodes
    /\ \E i \in DOMAIN K : OrphanRow(i) /\ K[i].code \notin Appearing

----------------------------------------------------------------------------
\* C8 (as stated): in every output record the last code is a leaf or sits at
\* depth exactly max_levels, and every code before the last is a non-leaf at a
\* depth below max_levels.
C8_Original ==
    Built =>
        \A i \in DOMAIN flat_df :
            LET path == flat_df[i].Code
            IN  /\ IsLeaf(Last(path)) \/ Len(path) = max_levels
                /\ \A k \in 1..(Len(path) - 1) :
                        ~IsLeaf(path[k]) /\ k < max_levels

\* C8 (amended): the last code is a leaf or sits at depth >= max_levels, which
\* is depth exactly max_levels when max_levels >= 1 and depth 1 when
\* max_levels <= 0; every code before the last is a non-leaf at a depth below
\* max_levels and is the parent of the next code; with max_levels <= 1 there is
\* one record per root row, each with Level1 only.
C8_Termination ==
    Built =>
        /\ \A i \in DOMAIN flat_df :
            LET path == flat_df[i].Code
            IN  /\ IsLeaf(Last(path))
                   \/ Len(path) = (IF max_levels >= 1 THEN max_levels ELSE 1)
                /\ IsRoot(path[1])
                /\ \A k \in 1..(Len(path) - 1) :
                        /\ ~IsLeaf(path[k])
                        /\ k < max_levels
                        /\ Link(path[k], path[k + 1])
        /\ max_levels <= 1 =>
            /\ Len(flat_df) = Cardinality({i \in DOMAIN K : K[i].parent_code = NaN})
            /\ \A i \in DOMAIN flat_df : Len(flat_df[i].Code) = 1

\* a cap of 2 cuts a path at a code that is no leaf and has a child
C8_Witness ==
    /\ pc = "built"
    /\ max_levels = 2
    /\ DistinctCodes
    /\ \E i \in DOMAIN flat_df :
        LET c == flat_df[i].Leaf_Code
        IN  ~IsLeaf(c) /\ Len(flat_df[i].Code) = 2 /\ Descend({c}, 1) # {c}

\* a flagged code with a child ends a path below the cap; the child appears in
\* no record
C8_WitnessFlagged ==
    /\ pc = "built"
    /\ max_levels = 3
    /\ DistinctCodes
    /\ \E i \in DOMAIN flat_df :
        LET c == flat_df[i].Leaf_Code
        IN  /\ Flagged(c)
            /\ Len(flat_df[i].Code) = 2
            /\ \E b \in Codes : Link(c, b) /\ b \notin Appearing

----------------------------------------------------------------------------
RECURSIVE RowWalks(_)
\* sequences of m kept-row numbers: a root row, then rows each naming the code
\* of the one before as parent, none but the last carrying a leaf code
RowWalks(m) ==
    LET k == K
    IN  IF m <= 1 THEN {<<i>> : i \in {i \in DOMAIN k : k[i].parent_code = NaN}}
        ELSE UNION {{Append(s, i) :
                        i \in {i \in DOMAIN k : k[i].parent_code = k[Last(s)].code}} :
                    s \in {s \in RowWalks(m - 1) : ~IsLeaf(k[Last(s)].code)}}

\* the walks build_hierarchy is to emit: ended at the first leaf or at the cap
RowPaths ==
    LET cap == IF max_levels >= 1 THEN max_levels ELSE 1
    IN  {s \in UNION {RowWalks(m) : m \in 1..cap} :
            IsLeaf(K[Last(s)].code) \/ Len(s) >= max_levels}

\* s comes before t in depth-first pre-order: at the first place they differ,
\* the row of s was scanned first
Before(s, t) ==
    \E k \in 1..Len(s) :
        /\ k <= Len(t)
        /\ s[k] < t[k]
        /\ \A j \in 1..(k - 1) : s[j] = t[j]

RECURSIVE InPreOrder(_)
\* the walks of S listed in depth-first pre-order
InPreOrder(S) ==
    IF S = {} THEN <<>>
    ELSE LET first == CHOOSE s \in S : \A t \in S \ {s} : Before(s, t)
         IN  <<first>> \o InPreOrder(S \ {first})

\* C10: the records come in depth-first pre-order: roots in the order of their
\* rows in the filtered input, under each node its children in the order their
\* rows were scanned, each subtree's records before the next sibling's; every
\* record's codes and titles are fixed by the rows, max_levels and category
\* (a second call on the same arguments can return nothing else).
C10_PreOrder ==
    Built =>
        LET walks == InPreOrder(RowPaths)
            k     == K
        IN  /\ Len(flat_df) = Len(walks)
            /\ \A i \in DOMAIN flat_df :
                LET s == walks[i]
                IN  /\ flat_df[i].Code = [j \in DOMAIN s |-> k[s[j]].code]
                    /\ flat_df[i].Title = [j \in DOMAIN s |-> FirstTitle(k[s[j]].code)]

\* the child of the first root is listed in the sheet after the second root,
\* and its record still comes before the second root's
C10_Witness ==
    /\ pc = "built"
    /\ Len(K) = 3
    /\ K[1].parent_code = NaN
    /\ K[2].parent_code = NaN
    /\ K[3].parent_code = K[1].code
    /\ K[2].code # K[1].code
    /\ Len(flat_df) = 2
    /\ flat_df[1].Code = <<K[1].code, K[3].code>>
    /\ flat_df[2].Code = <<K[2].code>>

----------------------------------------------------------------------------
(* hierarchy_select, as the claims read it: stated on the table and the     *)
(* choices made                                                             *)

\* the rows of the table whose title at each of the first n levels is the
\* choice made at that level
Matching(n) ==
    {i \in DOMAIN flat_df : \A k \in 1..n : Cell(flat_df[i], k) = picked[k]}

\* every choice made so far was the first option of its list
AllFirst == \A k \in DOMAIN picked : picked[k] = shown[k][1]

\* C3: always choosing the first option ends after at most max_levels choices
\* with at most one candidate row, also when siblings share a title and when
\* titles are missing. Stated here for max_levels >= 1 and sheets of pairwise
\* distinct codes.
C3_Convergence ==
    (pc = "done" /\ AllFirst /\ max_levels >= 1 /\ DistinctCodes) =>
        Len(picked) <= max_levels /\ Len(filtered_df) <= 1

----------------------------------------------------------------------------
\* C5: on a non-empty table, for any choices taken from the options offered,
\* hierarchy_select returns Leaf_Code and Leaf_Title of the first row, in table
\* order, among the rows whose title at every chosen level is the choice made
\* there, and combined is that row's code, the dash, and that row's title.
C5_SelectResult ==
    (pc = "done" /\ flat_df # <<>>) =>
        /\ Matching(Len(picked)) # {}
        /\ LET m   == CHOOSE i \in Matching(Len(picked)) :
                        \A j \in Matching(Len(picked)) : i <= j
               row == flat_df[m]
           IN  /\ result.code = row.Leaf_Code
               /\ result.title = row.Leaf_Title
               /\ result.combined =
                    <<Fmt(row.Leaf_Code), EnDashSep, Fmt(row.Leaf_Title)>>

\* the rows left by the choice are several and not the head of the table; the
\* first of them is returned
C5_Witness ==
    /\ pc = "done"
    /\ Len(picked) = 1
    /\ Cardinality(Matching(1)) = 2
    /\ 1 \notin Matching(1)
    /\ \E i, j \in Matching(1) :
        i < j /\ flat_df[i].Leaf_Code # flat_df[j].Leaf_Code
              /\ result.code = flat_df[i].Leaf_Code

\* two choices, one per level, leave two rows; the first of them is returned
C5_WitnessTwoLevels ==
    /\ pc = "done"
    /\ Len(picked) = 2
    /\ \E i, j \in Matching(2) :
        i < j /\ flat_df[i].Leaf_Code # flat_df[j].Leaf_Code
              /\ result.code = flat_df[i].Leaf_Code

----------------------------------------------------------------------------
\* C9: at every level presented the option list is exactly the set of distinct
\* non-empty titles at that level's column in the current candidate rows, with
\* no duplicates, in ascending order; neither a missing title nor the empty
\* string is ever offered.
C9_Options ==
    pc \in {"select", "done"} =>
        \A k \in DOMAIN shown :
            /\ {shown[k][i] : i \in DOMAIN shown[k]} =
                {Cell(flat_df[i], k) : i \in Matching(k - 1)} \ {NaN, ""}
            /\ \A i, j \in DOMAIN shown[k] :
                i < j => Rank(shown[k][i]) < Rank(shown[k][j])

----------------------------------------------------------------------------
\* the kept rows hold a cycle the traversal walks into from a root: a chain
\* of parent->child links from a root that comes back to one of its own codes,
\* every code before the last being a node the traversal descends from (not
\* flagged is_leaf, with children)
CycleFromRoot ==
    \E s \in Chains(Cardinality(Codes) + 1) :
        /\ \E i \in 1..(Len(s) - 1) : s[i] = Last(s)
        /\ \A i \in 1..(Len(s) - 1) : ~IsLeaf(s[i])

\* the deepest the recursion of dfs can go: the cap on the path length
DepthCap == IF max_levels >= 1 THEN max_levels ELSE 1

\* C11 (as stated): when the parent/child graph holds a cycle that the
\* traversal enters from a root, the traversal recurses indefinitely and
\* build_hierarchy never returns.
C11_Original == CycleFromRoot => pc # "built"

\* C11 (amended): when the parent/child graph holds a cycle that the traversal
\* enters from a root, the recursion of dfs never goes deeper than the cap
\* (max_levels calls, one call when max_levels <= 0) and build_hierarchy
\* returns.
C11_CycleCut ==
    /\ []((pc = "dfs" /\ CycleFromRoot) => Len(call_stack) <= DepthCap)
    /\ (pc = "dfs" /\ CycleFromRoot) ~> (pc = "built")

\* build_hierarchy has returned after the traversal went once around a cycle
\* and was cut at the cap: a record of max_levels codes ends in the code it
\* starts with
C11_Witness ==
    /\ pc = "built"
    /\ CycleFromRoot
    /\ max_levels = 3
    /\ \E i \in DOMAIN flat_df :
        LET r == flat_df[i]
        IN  Len(r.Code) = 3 /\ r.Code[1] = r.Code[3] /\ r.Code[1] # r.Code[2]

----------------------------------------------------------------------------
\* the two calls made the same selections at the levels before k
SamePrefix(k) == \A j \in 1..(k - 1) : picked[j] = prev_picked[j]

Min(a, b) == IF a <= b THEN a ELSE b

\* C12: across repeated calls of hierarchy_select on the same table the option
\* list shown at level k (content and order) depends only on the selections
\* made at levels 1..k-1: two calls that agree on the selections before level
\* k show the same list at level k, whatever is selected at level k or deeper,
\* and a level shown by the one is shown by the other.
C12_Resumable ==
    /\ \A k \in 1..Min(Len(shown), Len(prev_shown)) :
            SamePrefix(k) => shown[k] = prev_shown[k]
    /\ (pc = "done" /\ prev_shown # <<>>) =>
            \A k \in 1..Len(prev_shown) :
                SamePrefix(k) => Len(shown) >= k

\* a second call that repeats the first selection and changes the second is
\* shown the same two option lists, the second of them with two options
C12_Witness ==
    /\ pc = "done"
    /\ Len(shown) >= 2
    /\ Len(prev_shown) >= 2
    /\ picked[1] = prev_picked[1]
    /\ picked[2] # prev_picked[2]
    /\ Len(shown[2]) = 2
    /\ shown[2] = prev_shown[2]

\* a second call that changes the first selection is not shown the second
\* level the first call was shown
C12_WitnessChanged ==
    /\ pc = "done"
    /\ Len(prev_shown) = 2
    /\ Len(shown) = 1
    /\ picked[1] # prev_picked[1]
    /\ shown[1] = prev_shown[1]

----------------------------------------------------------------------------
\* C13: when the flattened table has at least one row, the candidate set is
\* non-empty after every narrowing step of hierarchy_select, whatever option
\* is selected, and hierarchy_select returns the all-empty result only when
\* the table itself is empty.
C13_NeverEmpties ==
    /\ (pc \in {"select", "done"} /\ flat_df # <<>>) => filtered_df # <<>>
    /\ (pc = "done" /\ result = EmptyResult) => flat_df = <<>>

\* after two narrowing steps, the second of which removed a candidate row, one
\* row is left and returned
C13_Witness ==
    /\ pc = "done"
    /\ Len(picked) = 2
    /\ Len(Narrow(flat_df, 1, picked[1])) = 2
    /\ Len(filtered_df) = 1
    /\ result # EmptyResult

----------------------------------------------------------------------------
(* The form as the claim reads it *)

\* the learning-objective text is non-empty
LoGiven == learning_objective # ""

\* the LO is assessed: the "Is Assessed?" value reads yes
Assessed == is_assessed \in {"Yes", " YES "}

\* the non-blank questions, in the order of their inputs
NonBlank == SelectSeq(question_texts, LAMBDA q : q # "" /\ q # " ")

\* a question without the spaces around it
Trimmed(q) == IF q = " Q2 " THEN "Q2" ELSE q

\* the handler is to accept the save
Accepted == LoGiven /\ (Assessed => NonBlank # <<>>)

\* the columns of the four standards results (NBEO condition, NBEO discipline,
\* ASCO, UHCO)
ResultColumns ==
    {"NBEO_Condition_Code", "NBEO_Condition_Title", "NBEO_Condition",
     "NBEO_Discipline_Code", "NBEO_Discipline_Title", "NBEO_Discipline",
     "ASCO_Standard_Code", "ASCO_Standard_Title", "ASCO_Standard",
     "UHCO_Standard_Code", "UHCO_Standard_Title", "UHCO_Standard"}

\* row r carries the four standards results of the run
CarriesResults(r) ==
    /\ r.NBEO_Condition_Code = nbeo_cond_result.code
    /\ r.NBEO_Condition_Title = nbeo_cond_result.title
    /\ r.NBEO_Condition = nbeo_cond_result.combined
    /\ r.NBEO_Discipline_Code = nbeo_disc_result.code
    /\ r.NBEO_Discipline_Title = nbeo_disc_result.title
    /\ r.NBEO_Discipline = nbeo_disc_result.combined
    /\ r.ASCO_Standard_Code = asco_result.code
    /\ r.ASCO_Standard_Title = asco_result.title
    /\ r.ASCO_Standard = asco_result.combined
    /\ r.UHCO_Standard_Code = uhco_result.code
    /\ r.UHCO_Standard_Title = uhco_result.title
    /\ r.UHCO_Standard = uhco_result.combined

\* every standards column of a row: those of the four results and that of the
\* ACOE standard
StandardsColumns == ResultColumns \cup {"ACOE_Standard"}

\* what a press of "Save this Learning Objective" has produced, the row of a
\* non-assessed LO having none of the columns cols
SaveOutcome(cols) ==
    pressed = "save" =>
        /\ new_rows # <<>> => Accepted
        /\ ~Accepted =>
            /\ new_rows = <<>>
            /\ message.text \in
                {"Learning Objective is required.",
                 "At least one question is required when LO is assessed."}
        /\ (Accepted /\ Assessed) =>
            /\ Len(new_rows) = Len(NonBlank)
            /\ \A i \in DOMAIN new_rows :
                /\ new_rows[i].Questions = Trimmed(NonBlank[i])
                /\ CarriesResults(new_rows[i])
        /\ (Accepted /\ ~Assessed) =>
            /\ Len(new_rows) = 1
            /\ new_rows[1].Questions = justification
            /\ DOMAIN new_rows[1] \cap cols = {}

\* what a run of the script does to the sheet and to the question count
RunStep ==
    /\ file_rows' # file_rows => (pressed' = "save" /\ Accepted)
    /\ \/ question_count' = question_count
       \/ question_count = Absent /\ question_count' = 1
       \/ /\ question_count # Absent
          /\ pressed' = "add"
          /\ question_count' = question_count + 1

\* the row of a non-assessed LO has the column ACOE_Standard, left empty
AcoeEmpty ==
    (pressed = "save" /\ Accepted /\ ~Assessed) =>
        /\ "ACOE_Standard" \in DOMAIN new_rows[1]
        /\ new_rows[1].ACOE_Standard = ""

\* C14 (as stated): a press of "Save this Learning Objective" produces rows to
\* write only if the learning-objective text is non-empty and, when the LO is
\* assessed, a question is non-blank; otherwise an error is shown and nothing
\* is written. An accepted save of an assessed LO produces one row per
\* non-blank question, all carrying the four standards results; an accepted
\* save of a non-assessed LO produces one row with the justification in
\* Questions and no standards columns. The question count starts at 1 and only
\* ever grows by 1 per press of "Add another question".
C14_Original == [](SaveOutcome(StandardsColumns)) /\ [][RunStep]_vars

\* C14 (amended): as stated, but the row of a non-assessed LO has none of the
\* twelve columns of the four standards results and does have the standards
\* column ACOE_Standard, holding the empty string.
C14_SaveGating == [](SaveOutcome(ResultColumns) /\ AcoeEmpty) /\ [][RunStep]_vars

\* after a press of "Add another question", a save of an assessed LO with one
\* blank and one padded question has produced one row, carrying a standards
\* result, and appended it to the sheet
C14_Witness ==
    /\ pressed = "save"
    /\ is_assessed = " YES "
    /\ question_count = 2
    /\ question_texts = <<" ", " Q2 ">>
    /\ Len(new_rows) = 1
    /\ new_rows[1].Questions = "Q2"
    /\ new_rows[1].ASCO_Standard_Code = CodePool[1]
    /\ message = Message("Saved", 1)
    /\ file_rows = 2

\* a save of an assessed LO whose questions are all blank is refused and the
\* sheet keeps its row
C14_WitnessRefused ==
    /\ pressed = "save"
    /\ LoGiven
    /\ Assessed
    /\ question_texts = <<" ", "">>
    /\ new_rows = <<>>
    /\ message.text = "At least one question is required when LO is assessed."
    /\ file_rows = 1

\* a save of an LO that is not assessed has produced one row
C14_WitnessNotAssessed ==
    /\ pressed = "save"
    /\ ~Assessed
    /\ justification = "J"
    /\ Len(new_rows) = 1
    /\ new_rows[1].Questions = "J"
    /\ "ACOE_Standard" \in DOMAIN new_rows[1]
    /\ message = Message("Saved", 1)

====
